---- MODULE Spec2Model ----
(***************************************************************************)
(* Model of the chatbot API: the function-calling orchestrator of          *)
(* NplService (functionCalling, getCallbackByFunctionName, searchItems,    *)
(* validateResponseFormat), the two tool callbacks registered by           *)
(* ChatbotService.chatbot (CurrencyService.convert and                     *)
(* ProductService.searchByName) and the HTTP boundary of                   *)
(* ChatbotController.                                                      *)
(*                                                                         *)
(* Text is modelled as a sequence of tokens (strings): a template string   *)
(* is the concatenation of its pieces, JSON.parse is a parser over the     *)
(* tokens and String.prototype.trim strips whitespace tokens.              *)
(***************************************************************************)
EXTENDS Integers, Sequences, FiniteSets, TLC

\* ------------------------------------------------------------------ bounds
\* Tool rounds the model provider may request in one run.
MaxRounds == 2
\* Tool-call requests the model provider may issue in one run (all rounds).
MaxToolCalls == 3
\* Tokens of a searchItems response explored exhaustively (SpecSearch).
MaxRespLen == 5
\* Tools of a registry and parameters of a registry (all its tools together)
\* explored by SpecSchema.
MaxTools == 2
MaxParams == 3

\* ------------------------------------------------------------- JSON values
\* A parsed JSON value.  Numbers are kept in tenths so that 1.5 and 1.0 are
\* representable: Number.isInteger(v) is v.n % 10 = 0.
JNum(n) == [t |-> "num", n |-> n]
JStr(s) == [t |-> "str", s |-> s]
JNull == [t |-> "null"]
JArr(items) == [t |-> "arr", items |-> items]
JObj(keys, vals) == [t |-> "obj", keys |-> keys, vals |-> vals]
Undefined == [t |-> "undefined"]

\* Number tokens and their value in tenths.
NumTok == {"0", "1", "2", "3", "-1", "100", "1.5", "1.0"}
NumVal(tok) ==
    CASE tok = "0" -> 0
      [] tok = "1" -> 10
      [] tok = "2" -> 20
      [] tok = "3" -> 30
      [] tok = "-1" -> -10
      [] tok = "100" -> 1000
      [] tok = "1.5" -> 15
      [] tok = "1.0" -> 10

\* String-literal tokens (the quotes are part of the token) and their value.
StrTok == {"\"name\"", "\"amount\"", "\"from\"", "\"to\"",
           "\"phone\"", "\"COP\"", "\"USD\"", "\"XXX\"", "\"a\""}
StrVal(tok) ==
    CASE tok = "\"name\"" -> "name"
      [] tok = "\"amount\"" -> "amount"
      [] tok = "\"from\"" -> "from"
      [] tok = "\"to\"" -> "to"
      [] tok = "\"phone\"" -> "phone"
      [] tok = "\"COP\"" -> "COP"
      [] tok = "\"USD\"" -> "USD"
      [] tok = "\"XXX\"" -> "XXX"
      [] tok = "\"a\"" -> "a"

ParseFail == [ok |-> FALSE, val |-> Undefined, rest |-> <<>>]
ParseOk(v, rest) == [ok |-> TRUE, val |-> v, rest |-> rest]

RECURSIVE ParseValue(_)
RECURSIVE ParseItems(_, _)
RECURSIVE ParseMembers(_, _, _)

\* The elements of an array after "[": value ("," value)* "]".
ParseItems(ts, acc) ==
    LET r == ParseValue(ts) IN
    IF ~r.ok \/ r.rest = <<>> THEN ParseFail
    ELSE IF Head(r.rest) = "]" THEN ParseOk(JArr(Append(acc, r.val)), Tail(r.rest))
    ELSE IF Head(r.rest) = "," THEN ParseItems(Tail(r.rest), Append(acc, r.val))
    ELSE ParseFail

\* The members of an object after "{": string ":" value ("," ...)* "}".
ParseMembers(ts, keys, vals) ==
    IF Len(ts) < 2 \/ Head(ts) \notin StrTok \/ ts[2] # ":" THEN ParseFail
    ELSE LET r == ParseValue(Tail(Tail(ts))) IN
         IF ~r.ok \/ r.rest = <<>> THEN ParseFail
         ELSE IF Head(r.rest) = "}"
              THEN ParseOk(JObj(Append(keys, StrVal(Head(ts))), Append(vals, r.val)),
                           Tail(r.rest))
         ELSE IF Head(r.rest) = ","
              THEN ParseMembers(Tail(r.rest), Append(keys, StrVal(Head(ts))),
                                Append(vals, r.val))
         ELSE ParseFail

ParseValue(ts) ==
    IF ts = <<>> THEN ParseFail
    ELSE LET h == Head(ts) IN
         IF h \in NumTok THEN ParseOk(JNum(NumVal(h)), Tail(ts))
         ELSE IF h \in StrTok THEN ParseOk(JStr(StrVal(h)), Tail(ts))
         ELSE IF h = "null" THEN ParseOk(JNull, Tail(ts))
         ELSE IF h = "[" THEN
              IF Len(ts) >= 2 /\ ts[2] = "]" THEN ParseOk(JArr(<<>>), Tail(Tail(ts)))
              ELSE ParseItems(Tail(ts), <<>>)
         ELSE IF h = "{" THEN
              IF Len(ts) >= 2 /\ ts[2] = "}" THEN ParseOk(JObj(<<>>, <<>>), Tail(Tail(ts)))
              ELSE ParseMembers(Tail(ts), <<>>, <<>>)
         ELSE ParseFail

\* JSON.parse(text): the whole text must be one value; anything else throws.
JSONParse(ts) ==
    LET r == ParseValue(ts) IN
    IF r.ok /\ r.rest = <<>> THEN [ok |-> TRUE, val |-> r.val]
    ELSE [ok |-> FALSE, val |-> Undefined]

\* obj[key] of a parsed value (params.amount, params.name ...): the value of
\* the last member with that key, undefined when absent or obj is no object.
IsObject(v) == v.t = "obj"
Member(v, key) ==
    IF IsObject(v) /\ \E i \in 1..Len(v.keys) : v.keys[i] = key
    THEN LET i == CHOOSE j \in 1..Len(v.keys) :
                      /\ v.keys[j] = key
                      /\ \A k \in (j + 1)..Len(v.keys) : v.keys[k] # key
         IN v.vals[i]
    ELSE Undefined

\* ------------------------------------------------------------------- text
RECURSIVE Join(_, _)
\* Array.prototype.join over token sequences.
Join(parts, sep) ==
    IF parts = <<>> THEN <<>>
    ELSE IF Len(parts) = 1 THEN parts[1]
    ELSE parts[1] \o sep \o Join(Tail(parts), sep)

Whitespace == {" ", "\n"}
RECURSIVE TrimStart(_)
TrimStart(ts) ==
    IF ts # <<>> /\ Head(ts) \in Whitespace THEN TrimStart(Tail(ts)) ELSE ts
RECURSIVE TrimEnd(_)
TrimEnd(ts) ==
    IF ts # <<>> /\ ts[Len(ts)] \in Whitespace
    THEN TrimEnd(SubSeq(ts, 1, Len(ts) - 1)) ELSE ts
\* String.prototype.trim
Trim(ts) == TrimEnd(TrimStart(ts))

\* --------------------------------------------------------- tool registries
\* NPLFunctionCallingParams and NPLFunction.  The callback of a tool is named
\* by an identifier; its behaviour is the part of the model that runs it.
Param(name, description, type, required) ==
    [name |-> name, description |-> description, type |-> type, required |-> required]
Tool(name, description, callback, params) ==
    [name |-> name, description |-> description, callback |-> callback, params |-> params]

convertCurrenciesTool ==
    Tool("convertCurrencies", "Convert a specified amount from one currency to another",
         "cbConvert",
         << Param("amount", "Amount to convert (e.g., 100).", "number", TRUE),
            Param("from", "Currency code to convert from (e.g., \"COP\").", "string", TRUE),
            Param("to", "Currency code to convert to (e.g., \"USD\").", "string", TRUE) >>)
searchProductsTool ==
    Tool("searchProducts", "Search for products in the inventory", "cbSearch",
         << Param("name", "Name of the product", "string", TRUE) >>)
\* The registry ChatbotService.chatbot builds for every request.
chatbotFunctions == << convertCurrenciesTool, searchProductsTool >>

\* ------------------------------------------------------ tool schema builder
\* if (param.required) requiredParams.push(param.name)
PushRequiredAlways(req, param) == Append(req, param.name)
PushRequired(req, param) ==
    IF param.required THEN Append(req, param.name) ELSE req

\* acc[param.name] = { type, description }: a later write replaces an earlier one.
SetPropertyFirstWins(acc, param) ==
    acc @@ (param.name :> [type |-> param.type, description |-> param.description])
SetProperty(acc, param) ==
    (param.name :> [type |-> param.type, description |-> param.description]) @@ acc

\* Every parameter of every tool, in registry order then declaration order
\* (the order in which reduce/forEach visit them).
RECURSIVE AllParams(_)
AllParams(callbacks) ==
    IF callbacks = <<>> THEN <<>>
    ELSE Head(callbacks).params \o AllParams(Tail(callbacks))

\* requiredParams after the parameters params were visited, from req.
RECURSIVE CollectRequired(_, _)
CollectRequired(req, params) ==
    IF params = <<>> THEN req
    ELSE CollectRequired(PushRequired(req, Head(params)), Tail(params))

\* The accumulator of reduce after the parameters params were visited.
RECURSIVE CollectProperties(_, _)
CollectProperties(acc, params) ==
    IF params = <<>> THEN acc
    ELSE CollectProperties(SetProperty(acc, Head(params)), Tail(params))

requiredParams(callbacks) == CollectRequired(<<>>, AllParams(callbacks))
properties(callbacks) == CollectProperties(<<>>, AllParams(callbacks))

\* The parameters object of tool i: the same object for every tool.
Parameters(callbacks, i) ==
    [type |-> "object",
     properties |-> properties(callbacks),
     required |-> requiredParams(callbacks),
     additionalProperties |-> FALSE]

functions(callbacks) ==
    [i \in 1..Len(callbacks) |->
        [type |-> "function",
         function |-> [name |-> callbacks[i].name,
                       description |-> callbacks[i].description,
                       parameters |-> Parameters(callbacks, i)]]]

ParamNames(params) == [j \in 1..Len(params) |-> << params[j].name >>]
\* `${index + 1}. ${fn.name}(${fn.params.map(p => p.name).join(', ')})` joined by ' '
functionList(callbacks) ==
    Join([i \in 1..Len(callbacks) |->
            << ToString(i), ". ", callbacks[i].name, "(" >>
            \o Join(ParamNames(callbacks[i].params), << ", " >>)
            \o << ")" >>],
         << " " >>)

\* ------------------------------------------------------- messages and errors
\* The content of a message: a text, or null (an assistant message that only
\* carries tool calls, or a provider response without text).
Text(ts) == [null |-> FALSE, text |-> ts]
NullContent == [null |-> TRUE, text |-> <<>>]
\* `${content}` inside a template string.
Render(content) == IF content.null THEN << "null" >> ELSE content.text

SystemMessage(ts) == [role |-> "system", content |-> Text(ts)]
UserMessage(ts) == [role |-> "user", content |-> Text(ts)]
ToolMessageFirstId(result, id) ==
    [role |-> "tool", content |-> Text(result), tool_call_id |-> "call_1"]
ToolMessage(result, id) ==
    [role |-> "tool", content |-> Text(result), tool_call_id |-> id]
AssistantMessage(content, toolCalls, hasToolCalls) ==
    [role |-> "assistant", content |-> content,
     tool_calls |-> toolCalls, hasToolCalls |-> hasToolCalls]
ToolCall(id, name, args) ==
    [id |-> id, type |-> "function", function |-> [name |-> name, arguments |-> args]]

\* An error object: its class, its HTTP status when it is an HttpException
\* (0 otherwise) and its message.
Error(name, status, message) == [name |-> name, status |-> status, message |-> message]
BadRequestStatus == 400
NotFoundStatus == 404
BadRequestException(message) == Error("BadRequestException", BadRequestStatus, message)
NotFoundException(message) == Error("NotFoundException", NotFoundStatus, message)
TypeError(message) == Error("TypeError", 0, message)
SyntaxError(message) == Error("SyntaxError", 0, message)
\* What the OpenAI client or fetch rejects with when the provider is
\* unreachable or answers with a non-2xx status.
ProviderError == Error("APIError", 0, << "Connection error." >>)
FetchError == TypeError(<< "fetch failed" >>)

NoOutcome == [kind |-> "none"]
Return(value) == [kind |-> "return", value |-> value]
Throw(error) == [kind |-> "throw", error |-> error]

\* ------------------------------------------------------------------ state
VARIABLES
    pc,            \* where the request is suspended
    entry,         \* "http": POST /chatbot; "direct": functionCalling called directly
    input,         \* the user input of the request
    callbacks,     \* the tool registry passed to functionCalling
    messages,      \* the message sequence of the run
    tools,         \* the tool calls of the round being executed
    toolIdx,       \* the position of the for-await loop in tools
    frame,         \* locals of the callback being awaited
    log,           \* every external call and callback invocation, in order
    outcome,       \* how functionCalling ended
    httpResponse,  \* what the HTTP client receives
    products,      \* ProductService.products
    loadPc,        \* the CSV load started by the ProductService constructor
    suspended      \* the locals of another request, suspended at an await

vars == << pc, entry, input, callbacks, messages, tools, toolIdx, frame, log,
           outcome, httpResponse, products, loadPc, suspended >>

\* The part of the state one functionCalling call owns.
Run == [pc |-> pc, messages |-> messages, tools |-> tools, toolIdx |-> toolIdx,
        frame |-> frame, log |-> log, outcome |-> outcome]

NoFrame == [callback |-> "none"]

\* ------------------------------------------------------------ log entries
\* client.chat.completions.create: kind is "loop" (lines 81, 101), "final"
\* (line 116) or "search" (line 168); toolSchema is the tools argument, empty
\* when the call passes none.
Completion(kind, msgs, toolSchema) ==
    [ev |-> "completion", kind |-> kind, messages |-> msgs, tools |-> toolSchema]
\* What the provider answered to the completion of that kind.
Response(kind, resp) == [ev |-> "response", kind |-> kind, llmResponse |-> resp]
Fetch(url) == [ev |-> "fetch", url |-> url]
Invocation(callback, id, params) ==
    [ev |-> "invoke", callback |-> callback, id |-> id, params |-> params]
\* The callback of tool call id resolved with result.
Returned(id, result) == [ev |-> "returned", id |-> id, result |-> result]
Raised(error) == [ev |-> "raised", error |-> error]

IsCompletion(e, kind) == e.ev = "completion" /\ e.kind = kind
Count(lg, P(_)) == Cardinality({i \in 1..Len(lg) : P(lg[i])})

\* ------------------------------------------- NplService.functionCalling
\* The initial message sequence (lines 69-78).
InitialMessages(in, cbs) ==
    << SystemMessage(<< "You are a helpful customer support assistant. Use the following functions: " >>
                     \o functionList(cbs)),
       UserMessage(in) >>

\* The nudge appended after every tool round (line 99).
Nudge(cbs) ==
    SystemMessage(<< "Don't ask the user, always do if there is some function list " >>
                  \o functionList(cbs))

\* The fresh context of the finalization call (lines 108-114).
finalMessage(in, content) ==
    << UserMessage(in),
       SystemMessage(<< "A user asks: \"" >> \o in \o << "\". The result was: " >>
                     \o Render(content) \o << ". Formulate a final response." >>) >>

\* llmResponse.choices[0].finish_reason === "tool_calls"
IsToolCallsAlways(choice) == TRUE
IsToolCalls(choice) == choice.finish_reason = "tool_calls"

\* The catch block of functionCalling (lines 123-126).
CatchReturnsPartial(R, error) ==
    [R EXCEPT !.pc = "done",
              !.frame = NoFrame,
              !.log = Append(@, Raised(error)),
              !.outcome = Return(Text(error.message))]
Catch(R, error) ==
    [R EXCEPT !.pc = "failed",
              !.frame = NoFrame,
              !.log = Append(@, Raised(error)),
              !.outcome = Throw(BadRequestException(
                              << "Function calling error: " >> \o error.message))]

\* getCallbackByFunctionName (lines 137-143): the callback of the first
\* registry entry with that name, or a BadRequestException.
getCallbackOrFirst(cbs, functionName) ==
    IF \E i \in 1..Len(cbs) : cbs[i].name = functionName
    THEN Return(cbs[CHOOSE i \in 1..Len(cbs) :
                        /\ cbs[i].name = functionName
                        /\ \A j \in 1..(i - 1) : cbs[j].name # functionName].callback)
    ELSE IF cbs # <<>> THEN Return(cbs[1].callback)
    ELSE Throw(BadRequestException(<< "Function ", functionName, " not found" >>))
getCallbackByFunctionName(cbs, functionName) ==
    IF \E i \in 1..Len(cbs) : cbs[i].name = functionName
    THEN Return(cbs[CHOOSE i \in 1..Len(cbs) :
                        /\ cbs[i].name = functionName
                        /\ \A j \in 1..(i - 1) : cbs[j].name # functionName].callback)
    ELSE Throw(BadRequestException(<< "Function ", functionName, " not found" >>))

\* The next loop completion (lines 81 and 101) is issued with the whole
\* message sequence and the tool schema.
IssueLoopCompletionFresh(R) ==
    [R EXCEPT !.pc = "awaitModel",
              !.log = Append(@, Completion("loop", SubSeq(R.messages, 1, 2),
                                           functions(callbacks)))]
IssueLoopCompletion(R) ==
    [R EXCEPT !.pc = "awaitModel",
              !.log = Append(@, Completion("loop", R.messages, functions(callbacks)))]

\* `${value}` / String(value) of a parsed JSON value used as text.
NumText(n) ==
    IF n % 10 = 0 THEN ToString(n \div 10)
    ELSE ToString(n \div 10) \o "." \o ToString(n % 10)
RenderValue(v) ==
    CASE v.t = "str" -> << v.s >>
      [] v.t = "num" -> << NumText(v.n) >>
      [] v.t = "null" -> << "null" >>
      [] v.t = "undefined" -> << "undefined" >>
      [] OTHER -> << "[object]" >>

\* ----------------------------------------------------- NplService.searchItems
\* The product catalog the CSV file holds.
Product(title) == [displayTitle |-> title]
Catalog == << Product("iPhone 12"), Product("iPhone 13") >>

\* items.map((item, index) => `${index + 1}. ${item}`).join('\n')
enumeratedItems(items) ==
    Join([i \in 1..Len(items) |-> << ToString(i), ". ", items[i] >>], << "\n" >>)

\* The two messages searchItems sends (lines 155-165).
searchMessages(searchTerm, items, constraints) ==
    << UserMessage(<< "Please find items related to \"" >> \o searchTerm \o << "\". " >>
                   \o (IF constraints # <<>>
                       THEN << "with the following constraints " >> \o constraints
                       ELSE <<>>)),
       SystemMessage(<< "You are a helpful assistant. Based on the user's query, return a JSON array containing the indices without any decoration of the relevant items from the following list:\n" >>
                     \o enumeratedItems(items)) >>

\* Number.isInteger
IsInteger(v) == v.t = "num" /\ v.n % 10 = 0

\* validateResponseFormat (lines 189-200): the parsed array of integers, or a
\* BadRequestException for anything else (JSON.parse(null) is null).
validateResponseFormat(responseMessage) ==
    LET parsed == IF responseMessage.null THEN [ok |-> TRUE, val |-> JNull]
                  ELSE JSONParse(responseMessage.text)
        invalid == BadRequestException(<< "Invalid response format from search: " >>
                                       \o Render(responseMessage))
    IN IF ~parsed.ok THEN Throw(invalid)
       ELSE IF parsed.val.t # "arr"
               \/ \E i \in 1..Len(parsed.val.items) : ~IsInteger(parsed.val.items[i])
            THEN Throw(invalid)
       ELSE Return([i \in 1..Len(parsed.val.items) |-> parsed.val.items[i].n \div 10])

\* What searchItems returns for a provider response (lines 167-179): every
\* error of the call or of the validation is caught and becomes [].
searchItemsPropagates(resp) ==
    IF resp.error THEN Throw(ProviderError)
    ELSE IF resp.choices = <<>>
         THEN Throw(TypeError(<< "Cannot read properties of undefined (reading 'message')" >>))
    ELSE validateResponseFormat(resp.choices[1].message.content)
searchItems(resp) ==
    IF resp.error THEN Return(<<>>)
    ELSE IF resp.choices = <<>> THEN Return(<<>>)
    ELSE LET v == validateResponseFormat(resp.choices[1].message.content)
         IN IF v.kind = "throw" THEN Return(<<>>) ELSE v

\* ------------------------------------------- ProductService.searchByName
\* JSON.stringify of an array of products; an undefined element prints null.
StringifyProducts(ps) ==
    << "[" >>
    \o Join([i \in 1..Len(ps) |->
                IF ps[i] = Undefined THEN << "null" >>
                ELSE << "{\"displayTitle\":\"", ps[i].displayTitle, "\"}" >>],
            << "," >>)
    \o << "]" >>

\* this.products[index - 1]
ProductAt(prods, index) ==
    IF index \in 1..Len(prods) THEN prods[index] ELSE Undefined

\* The body of the try block after searchItems returned (lines 64-69).
searchByNameTry(name, prods, indices) ==
    IF Len(indices) = 0
    THEN Throw(NotFoundException(<< "No products found for: " >> \o name))
    ELSE Return(StringifyProducts([i \in 1..Len(indices) |-> ProductAt(prods, indices[i])]))

\* The catch block (lines 70-73): every error of the try block, the
\* NotFoundException included, is rethrown as a BadRequestException.
searchByNameCatch(result) ==
    IF result.kind = "throw"
    THEN Throw(BadRequestException(<< "Unable to search products: " >> \o result.error.message))
    ELSE result

\* searchByName once the completion of searchItems has answered.
searchByName(name, prods, resp) ==
    LET found == searchItems(resp)
    IN searchByNameCatch(IF found.kind = "throw" THEN found
                         ELSE searchByNameTry(name, prods, found.value))

\* ---------------------------------------------- CurrencyService.convert
\* What the exchange-rate API serves.
CurrencyCodes == {"COP", "USD"}
FetchFailed == [error |-> TRUE, ok |-> FALSE]
FetchNotOk == [error |-> FALSE, ok |-> FALSE]
CurrencyListResponses ==
    {FetchFailed, FetchNotOk, [error |-> FALSE, ok |-> TRUE, currencies |-> CurrencyCodes]}
\* The rates are chosen so that the division is exact.
RatesResponses ==
    {FetchFailed, FetchNotOk,
     [error |-> FALSE, ok |-> TRUE, rates |-> ("COP" :> 50 @@ "USD" :> 1)],
     [error |-> FALSE, ok |-> TRUE, rates |-> ("USD" :> 1)]}

\* currencies[code] / ratesData.rates[code] is truthy.
HasCode(codes, v) == v.t = "str" /\ v.s \in codes

\* After the currency list answered (lines 84-96 of the controller file).
convertAfterCurrencies(fr, resp) ==
    IF resp.error THEN Throw(FetchError)
    ELSE IF ~resp.ok
         THEN Throw(BadRequestException(<< "CurrencyService: Unable to fetch the currency list." >>))
    ELSE IF ~HasCode(resp.currencies, fr.from) \/ ~HasCode(resp.currencies, fr.to)
         THEN Throw(BadRequestException(<< "CurrencyService: Invalid currency code(s)" >>))
    ELSE Return(<<>>)

\* After the rates answered (lines 97-107), then converted.toString().
convertAfterRates(fr, resp) ==
    IF resp.error THEN Throw(FetchError)
    ELSE IF ~resp.ok
         THEN Throw(BadRequestException(<< "CurrencyService: Unable to fetch the latest exchange rates." >>))
    ELSE IF ~HasCode(DOMAIN resp.rates, fr.from) \/ ~HasCode(DOMAIN resp.rates, fr.to)
         THEN Throw(BadRequestException(<< "CurrencyService: Exchange rate data not found" >>))
    ELSE IF fr.amount.t # "num" THEN Return(<< "NaN" >>)
    ELSE Return(<< NumText((fr.amount.n \div resp.rates[fr.from.s]) * resp.rates[fr.to.s]) >>)

\* --------------------------------------------- the for-await loop (91-97)
\* callback(JSON.parse(args)): the callback runs up to its first await.
InvokeFanOut(R, callback, tool, params) ==
    LET R1 == [R EXCEPT !.log = @ \o [k \in 1..(Len(R.tools) - R.toolIdx + 1) |->
                                       Invocation(callback, R.tools[R.toolIdx + k - 1].id, params)]]
    IN IF params.t = "null"
       THEN Catch(R1, TypeError(<< "Cannot read properties of null" >>))
       ELSE IF callback = "cbConvert"
       THEN [R1 EXCEPT !.pc = "awaitCurrencies",
                       !.frame = [callback |-> callback, id |-> tool.id,
                                  amount |-> Member(params, "amount"),
                                  from |-> Member(params, "from"),
                                  to |-> Member(params, "to")],
                       !.log = Append(@, Fetch("currencies.json"))]
       ELSE [R1 EXCEPT !.pc = "awaitSearch",
                       !.frame = [callback |-> callback, id |-> tool.id,
                                  name |-> RenderValue(Member(params, "name"))],
                       !.log = Append(@, Completion("search",
                                   searchMessages(RenderValue(Member(params, "name")),
                                       [i \in 1..Len(products) |-> products[i].displayTitle],
                                       << "Must select 2 items." >>),
                                   <<>>))]
Invoke(R, callback, tool, params) ==
    LET R1 == [R EXCEPT !.log = Append(@, Invocation(callback, tool.id, params))]
    IN IF params.t = "null"
       THEN Catch(R1, TypeError(<< "Cannot read properties of null" >>))
       ELSE IF callback = "cbConvert"
       THEN [R1 EXCEPT !.pc = "awaitCurrencies",
                       !.frame = [callback |-> callback, id |-> tool.id,
                                  amount |-> Member(params, "amount"),
                                  from |-> Member(params, "from"),
                                  to |-> Member(params, "to")],
                       !.log = Append(@, Fetch("currencies.json"))]
       ELSE [R1 EXCEPT !.pc = "awaitSearch",
                       !.frame = [callback |-> callback, id |-> tool.id,
                                  name |-> RenderValue(Member(params, "name"))],
                       !.log = Append(@, Completion("search",
                                   searchMessages(RenderValue(Member(params, "name")),
                                       [i \in 1..Len(products) |-> products[i].displayTitle],
                                       << "Must select 2 items." >>),
                                   <<>>))]

\* One iteration of the loop over the tool calls of the round, or, past the
\* last tool call, the nudge and the next loop completion (lines 99-105).
ExecToolsInvokesUnparsed(R) ==
    IF R.toolIdx > Len(R.tools)
    THEN IssueLoopCompletion([R EXCEPT !.messages = Append(@, Nudge(callbacks))])
    ELSE LET tool == R.tools[R.toolIdx]
             cb == getCallbackByFunctionName(callbacks, tool.function.name)
             parsed == JSONParse(tool.function.arguments)
         IN IF cb.kind = "throw" THEN Catch(R, cb.error)
            ELSE Invoke(R, cb.value, tool, IF parsed.ok THEN parsed.val ELSE JNull)
ExecTools(R) ==
    IF R.toolIdx > Len(R.tools)
    THEN IssueLoopCompletion([R EXCEPT !.messages = Append(@, Nudge(callbacks))])
    ELSE LET tool == R.tools[R.toolIdx]
             cb == getCallbackByFunctionName(callbacks, tool.function.name)
             parsed == JSONParse(tool.function.arguments)
         IN IF cb.kind = "throw" THEN Catch(R, cb.error)
            ELSE IF ~parsed.ok
            THEN Catch(R, SyntaxError(<< "Unexpected token in JSON" >>))
            ELSE Invoke(R, cb.value, tool, parsed.val)

\* The callback resolved: its tool message is pushed and the loop goes on.
ToolReturnedRetry(R, result) ==
    ExecTools([R EXCEPT !.frame = NoFrame, !.log = Append(@, Returned(R.frame.id, result))])
ToolReturned(R, result) ==
    ExecTools([R EXCEPT !.messages = Append(@, ToolMessage(result, R.frame.id)),
                        !.toolIdx = @ + 1,
                        !.frame = NoFrame,
                        !.log = Append(@, Returned(R.frame.id, result))])

\* The callback rejected: the error reaches the catch block of functionCalling.
ToolFailedSkips(R, error) ==
    ExecTools([R EXCEPT !.toolIdx = @ + 1, !.frame = NoFrame])
ToolFailed(R, error) == Catch(R, error)

\* A loop completion answered (lines 87-89 and 108-119).
AfterLoopCompletionSkipsFinal(R0, resp) ==
    LET R == [R0 EXCEPT !.log = Append(@, Response("loop", resp))] IN
    IF resp.error THEN Catch(R, ProviderError)
    ELSE IF resp.choices = <<>>
         THEN Catch(R, TypeError(<< "Cannot read properties of undefined (reading 'finish_reason')" >>))
    ELSE LET choice == resp.choices[1] IN
         IF IsToolCalls(choice)
         THEN LET R1 == [R EXCEPT !.messages = Append(@, choice.message)] IN
              IF ~choice.message.hasToolCalls
              THEN Catch(R1, TypeError(<< "tools is not async iterable" >>))
              ELSE ExecTools([R1 EXCEPT !.tools = choice.message.tool_calls, !.toolIdx = 1])
         ELSE [R EXCEPT !.pc = "done", !.outcome = Return(choice.message.content)]
AfterLoopCompletionCapped(R0, resp) ==
    LET R == [R0 EXCEPT !.log = Append(@, Response("loop", resp))] IN
    IF resp.error THEN Catch(R, ProviderError)
    ELSE IF resp.choices = <<>>
         THEN Catch(R, TypeError(<< "Cannot read properties of undefined (reading 'finish_reason')" >>))
    ELSE LET choice == resp.choices[1] IN
         IF IsToolCalls(choice) /\ \A i \in 1..Len(R.messages) : R.messages[i].role # "assistant"
         THEN LET R1 == [R EXCEPT !.messages = Append(@, choice.message)] IN
              IF ~choice.message.hasToolCalls
              THEN Catch(R1, TypeError(<< "tools is not async iterable" >>))
              ELSE ExecTools([R1 EXCEPT !.tools = choice.message.tool_calls, !.toolIdx = 1])
         ELSE [R EXCEPT !.pc = "awaitFinal",
                        !.log = Append(@, Completion("final",
                                    finalMessage(input, choice.message.content), <<>>))]
AfterLoopCompletion(R0, resp) ==
    LET R == [R0 EXCEPT !.log = Append(@, Response("loop", resp))] IN
    IF resp.error THEN Catch(R, ProviderError)
    ELSE IF resp.choices = <<>>
         THEN Catch(R, TypeError(<< "Cannot read properties of undefined (reading 'finish_reason')" >>))
    ELSE LET choice == resp.choices[1] IN
         IF IsToolCalls(choice)
         THEN LET R1 == [R EXCEPT !.messages = Append(@, choice.message)] IN
              IF ~choice.message.hasToolCalls
              THEN Catch(R1, TypeError(<< "tools is not async iterable" >>))
              ELSE ExecTools([R1 EXCEPT !.tools = choice.message.tool_calls, !.toolIdx = 1])
         ELSE [R EXCEPT !.pc = "awaitFinal",
                        !.log = Append(@, Completion("final",
                                    finalMessage(input, choice.message.content), <<>>))]

\* The finalization completion answered (line 121).
AfterFinalCompletionDropped(R0, resp) == R0
AfterFinalCompletion(R0, resp) ==
    LET R == [R0 EXCEPT !.log = Append(@, Response("final", resp))] IN
    IF resp.error THEN Catch(R, ProviderError)
    ELSE IF resp.choices = <<>> THEN [R EXCEPT !.pc = "done", !.outcome = Return(Undefined)]
    ELSE IF resp.choices[1].message.content.null
         THEN Catch(R, TypeError(<< "Cannot read properties of null (reading 'trim')" >>))
    ELSE [R EXCEPT !.pc = "done",
                   !.outcome = Return(Text(Trim(resp.choices[1].message.content.text)))]

\* ------------------------------------------------------- the HTTP boundary
\* ChatbotService.chatbot (lines 78-85): the answer wrapped in {response},
\* or the error rethrown as a BadRequestException.
chatbot(result) ==
    IF result.kind = "throw"
    THEN Throw(BadRequestException(<< "Chatbot error: " >> \o result.error.message))
    ELSE Return([response |-> result.value])

\* The status of a handler that returns: a @Post() route without @HttpCode
\* answers 201 Created.
PostDefaultStatus == 201
\* ChatbotController.chatbot (lines 57-59) and the framework's exception
\* filter: an HttpException is answered with its own status and message.
controller(result) ==
    IF result.kind = "throw"
    THEN [status |-> result.error.status,
          body |-> [statusCode |-> result.error.status, message |-> result.error.message]]
    ELSE [status |-> PostDefaultStatus, body |-> result.value]

NoResponse == [status |-> 0]
\* The ValidationPipe (main.ts line 14) rejects a body whose input is no string.
ValidationFailure ==
    controller(Throw(BadRequestException(<< "input must be a string" >>)))

\* ------------------------------------------------- what the providers answer
Inputs == { << "hello" >>, << "Convert 100 COP to USD" >> }
\* The registries functionCalling is called with: the one of ChatbotService,
\* one with the currency tool only, and the empty one.
Registries == { chatbotFunctions, << convertCurrenciesTool >>, <<>> }

ConvertArgs == << "{", "\"amount\"", ":", "100", ",", "\"from\"", ":", "\"COP\"", ",",
                  "\"to\"", ":", "\"USD\"", "}" >>
SearchArgs == << "{", "\"name\"", ":", "\"phone\"", "}" >>
TruncatedArgs == << "{", "\"name\"", ":" >>
NullArgs == << "null" >>
\* The (tool name, arguments) pairs the model may request.
ToolRequests ==
    { << "convertCurrencies", ConvertArgs >>,
      << "searchProducts", SearchArgs >>,
      << "searchProducts", TruncatedArgs >>,
      << "convertCurrencies", NullArgs >>,
      << "unknownTool", SearchArgs >>,
      << "unknownTool", TruncatedArgs >> }

IsAssistant(m) == m.role = "assistant"
\* Tool rounds started and tool calls requested so far in the run.
Rounds(ms) == Cardinality({i \in 1..Len(ms) : IsAssistant(ms[i])})
RECURSIVE CallsRequested(_)
CallsRequested(ms) ==
    IF ms = <<>> THEN 0
    ELSE (IF IsAssistant(Head(ms)) THEN Len(Head(ms).tool_calls) ELSE 0)
         + CallsRequested(Tail(ms))

\* The tool-call lists of at most n requests, with ids that continue after base.
ToolCallLists(n, base) ==
    UNION { { [i \in 1..k |-> ToolCall("call_" \o ToString(base + i), f[i][1], f[i][2])] :
                f \in [1..k -> ToolRequests] } : k \in 0..n }

ApiError == [error |-> TRUE, choices |-> <<>>]
NoChoices == [error |-> FALSE, choices |-> <<>>]
Choice(finishReason, message) ==
    [error |-> FALSE, choices |-> << [finish_reason |-> finishReason, message |-> message] >>]

AssistantTexts == { Text(<< "The", " ", "result" >>), NullContent }
\* Answers to a loop completion: an error, no choice, a text, or tool calls
\* (within the bounds), possibly with the tool_calls field missing.
LoopResponses(ms) ==
    {ApiError, NoChoices}
    \cup { Choice(fr, AssistantMessage(c, <<>>, FALSE)) :
             fr \in {"stop", "length"}, c \in AssistantTexts }
    \cup (IF Rounds(ms) < MaxRounds
          THEN { Choice("tool_calls", AssistantMessage(NullContent, <<>>, FALSE)) }
               \cup { Choice("tool_calls", AssistantMessage(NullContent, tc, TRUE)) :
                        tc \in ToolCallLists(MaxToolCalls - CallsRequested(ms),
                                             CallsRequested(ms)) }
          ELSE {})

FinalResponses ==
    {ApiError, NoChoices}
    \cup { Choice("stop", AssistantMessage(c, <<>>, FALSE)) :
             c \in { NullContent, Text(<< "Answer" >>), Text(<< " ", "Answer", ".", "\n" >>) } }

SearchTexts ==
    { NullContent, Text(<< "[", "1", ",", "2", "]" >>), Text(<< "[", "]" >>),
      Text(<< "Items", ":", "[", "1", "]" >>) }
SearchResponses ==
    {ApiError, NoChoices}
    \cup { Choice("stop", AssistantMessage(c, <<>>, FALSE)) : c \in SearchTexts }

\* ------------------------------------------------------------------ actions
\* What belongs to one request: the position of its handler and the locals of
\* chatbot() and functionCalling(), with the history of its own calls.
Context ==
    [pc |-> pc, entry |-> entry, input |-> input, callbacks |-> callbacks,
     messages |-> messages, tools |-> tools, toolIdx |-> toolIdx, frame |-> frame,
     log |-> log, outcome |-> outcome, httpResponse |-> httpResponse]
\* A request that has not arrived yet.
IdleContext ==
    [pc |-> "idle", entry |-> "none", input |-> <<>>, callbacks |-> <<>>,
     messages |-> <<>>, tools |-> <<>>, toolIdx |-> 0, frame |-> NoFrame,
     log |-> <<>>, outcome |-> NoOutcome, httpResponse |-> NoResponse]

Init ==
    /\ pc = "idle"
    /\ entry = "none"
    /\ input = <<>>
    /\ callbacks = <<>>
    /\ messages = <<>>
    /\ tools = <<>>
    /\ toolIdx = 0
    /\ frame = NoFrame
    /\ log = <<>>
    /\ outcome = NoOutcome
    /\ httpResponse = NoResponse
    /\ products = <<>>
    /\ loadPc = "pending"
    /\ suspended = IdleContext

\* The run moves to R; when it ends, a request that came over HTTP is answered.
Set(R) ==
    /\ pc' = R.pc
    /\ messages' = R.messages
    /\ tools' = R.tools
    /\ toolIdx' = R.toolIdx
    /\ frame' = R.frame
    /\ log' = R.log
    /\ outcome' = R.outcome
    /\ httpResponse' = IF entry = "http" /\ R.pc \in {"done", "failed"}
                       THEN controller(chatbot(R.outcome))
                       ELSE httpResponse
    /\ UNCHANGED << entry, input, callbacks, products, loadPc, suspended >>

\* loadProducts (product.service.ts lines 39-47) completes.
LoadProducts ==
    /\ loadPc = "pending"
    /\ products' = Catalog
    /\ loadPc' = "loaded"
    /\ UNCHANGED << pc, entry, input, callbacks, messages, tools, toolIdx, frame, log,
                    outcome, httpResponse, suspended >>

\* parseCSV rejects: products stays empty.
LoadProductsFails ==
    /\ loadPc = "pending"
    /\ loadPc' = "failed"
    /\ UNCHANGED << pc, entry, input, callbacks, messages, tools, toolIdx, frame, log,
                    outcome, httpResponse, products, suspended >>

\* functionCalling up to its first await (lines 38-85).
StartFunctionCalling(how, in, cbs) ==
    /\ pc = "idle"
    /\ entry' = how
    /\ input' = in
    /\ callbacks' = cbs
    /\ pc' = "awaitModel"
    /\ messages' = InitialMessages(in, cbs)
    /\ log' = << Completion("loop", InitialMessages(in, cbs), functions(cbs)) >>
    /\ UNCHANGED << tools, toolIdx, frame, outcome, httpResponse, products, loadPc, suspended >>

\* POST /chatbot with a valid body.
PostChatbot == \E in \in Inputs : StartFunctionCalling("http", in, chatbotFunctions)

\* POST /chatbot with a body whose input is not a string.
PostChatbotInvalid ==
    /\ pc = "idle"
    /\ pc' = "rejected"
    /\ httpResponse' = ValidationFailure
    /\ UNCHANGED << entry, input, callbacks, messages, tools, toolIdx, frame, log,
                    outcome, products, loadPc, suspended >>

\* functionCalling called with another registry.
CallFunctionCalling ==
    \E cbs \in Registries \ {chatbotFunctions} :
        StartFunctionCalling("direct", << "hello" >>, cbs)

ModelResponds ==
    /\ pc = "awaitModel"
    /\ \E resp \in LoopResponses(messages) : Set(AfterLoopCompletion(Run, resp))

CurrenciesRespond ==
    /\ pc = "awaitCurrencies"
    /\ \E resp \in CurrencyListResponses :
         LET r == convertAfterCurrencies(frame, resp) IN
         IF r.kind = "throw" THEN Set(ToolFailed(Run, r.error))
         ELSE Set([Run EXCEPT !.pc = "awaitRates", !.log = Append(@, Fetch("latest.json"))])

RatesRespond ==
    /\ pc = "awaitRates"
    /\ \E resp \in RatesResponses :
         LET r == convertAfterRates(frame, resp) IN
         IF r.kind = "throw" THEN Set(ToolFailed(Run, r.error))
         ELSE Set(ToolReturned(Run, r.value))

SearchResponds ==
    /\ pc = "awaitSearch"
    /\ entry # "search"
    /\ \E resp \in SearchResponses :
         LET r == searchByName(frame.name, products, resp)
             R == [Run EXCEPT !.log = Append(@, Response("search", resp))]
         IN IF r.kind = "throw" THEN Set(ToolFailed(R, r.error))
            ELSE Set(ToolReturned(R, r.value))

FinalResponds ==
    /\ pc = "awaitFinal"
    /\ \E resp \in FinalResponses : Set(AfterFinalCompletion(Run, resp))

Next ==
    \/ LoadProducts
    \/ LoadProductsFails
    \/ PostChatbot
    \/ PostChatbotInvalid
    \/ CallFunctionCalling
    \/ ModelResponds
    \/ CurrenciesRespond
    \/ RatesRespond
    \/ SearchResponds
    \/ FinalResponds

Spec == Init /\ [][Next]_vars

\* ------------------------------------------------------ reading the history
IsInvoke(e) == e.ev = "invoke"
IsReturned(e) == e.ev = "returned"
IsRaised(e) == e.ev = "raised"
IsAnyCompletion(e) == e.ev = "completion"
IsLoopCompletion(e) == IsCompletion(e, "loop")
IsFinalCompletion(e) == IsCompletion(e, "final")
\* A completion functionCalling itself issues (not the one of searchItems).
IsRunCompletion(e) == IsLoopCompletion(e) \/ IsFinalCompletion(e)
IsLoopResponse(e) == e.ev = "response" /\ e.kind = "loop"

Prefix(lg, n) == SubSeq(lg, 1, n)
IsPrefix(a, b) == Len(a) <= Len(b) /\ SubSeq(b, 1, Len(a)) = a
Ids(calls) == [i \in 1..Len(calls) |-> calls[i].id]
EventIds(lg, P(_)) == Ids(SelectSeq(lg, P))

\* The ids of every tool call the model requested, in the order of the rounds
\* and, within a round, in the order the model listed them.
RECURSIVE RequestedIds(_)
RequestedIds(ms) ==
    IF ms = <<>> THEN <<>>
    ELSE (IF IsAssistant(Head(ms)) THEN Ids(Head(ms).tool_calls) ELSE <<>>)
         \o RequestedIds(Tail(ms))

ToolNames(cbs) == {cbs[i].name : i \in 1..Len(cbs)}
Waiting == {"awaitCurrencies", "awaitRates", "awaitSearch"}

\* C1: if the first completion of a run answers with a stop reason other than
\* "tool_calls", the run issues exactly two completion calls, that one and
\* the finalization, and invokes no callback.
C1_NoToolCallsTwoCompletions ==
    \A i \in 1..Len(log) :
        ( /\ IsLoopResponse(log[i])
          /\ \A j \in 1..(i - 1) : ~IsLoopResponse(log[j])
          /\ ~log[i].llmResponse.error
          /\ log[i].llmResponse.choices # <<>>
          /\ log[i].llmResponse.choices[1].finish_reason # "tool_calls" )
        => /\ Count(log, IsAnyCompletion) = 2
           /\ IsLoopCompletion(log[1])
           /\ IsFinalCompletion(log[i + 1])
           /\ Count(log, IsInvoke) = 0

C1_Witness ==
    /\ pc = "done"
    /\ entry = "http"
    /\ input = << "hello" >>
    /\ Rounds(messages) = 0
    /\ Count(log, IsFinalCompletion) = 1
    /\ Count(log, IsInvoke) = 0

\* C2: the callbacks of the requests of a round are invoked at most once
\* each, in the order the model listed the requests, and all of them have
\* returned before the next completion call is issued.
C2_ToolCallsInOrderBeforeNextCompletion ==
    /\ IsPrefix(EventIds(log, IsInvoke), RequestedIds(messages))
    /\ \A p \in 1..Len(log) :
          IsRunCompletion(log[p])
          => /\ EventIds(Prefix(log, p), IsInvoke) = EventIds(Prefix(log, p), IsReturned)
             /\ IsLoopCompletion(log[p])
                => RequestedIds(log[p].messages) = EventIds(Prefix(log, p), IsInvoke)

C2_Witness ==
    /\ pc = "awaitModel"
    /\ Len(tools) = 2
    /\ Rounds(messages) = 1
    /\ EventIds(log, IsReturned) = Ids(tools)
    /\ Count(log, IsLoopCompletion) = 2
    /\ tools[1].function.name = "searchProducts"
    /\ tools[2].function.name = "convertCurrencies"

\* The positions of the round being executed whose tool is not registered.
UnknownRequests ==
    {i \in 1..Len(tools) : tools[i].function.name \notin ToolNames(callbacks)}

\* C3: a request naming a tool that is not in the registry fails the run: it
\* is not skipped, neither its callback nor one of a later request of the
\* round is invoked, and no further completion call is issued.
C3_UnknownToolFailsRun ==
    \A i \in UnknownRequests :
        /\ toolIdx <= i
        /\ \A j \in i..Len(tools) : \A e \in 1..Len(log) :
              IsInvoke(log[e]) => log[e].id # tools[j].id
        /\ Count(log, IsLoopCompletion) = Rounds(messages)
        /\ Count(log, IsFinalCompletion) = 0
        /\ pc \in Waiting \cup {"failed"}
        /\ toolIdx = i
           => /\ pc = "failed"
              /\ outcome.kind = "throw"
              /\ outcome.error.message =
                    << "Function calling error: ", "Function ",
                       tools[i].function.name, " not found" >>

C3_Witness ==
    /\ pc = "failed"
    /\ Len(tools) = 3
    /\ toolIdx = 2
    /\ UnknownRequests = {2}
    /\ tools[3].function.name = "convertCurrencies"
    /\ Count(log, IsInvoke) = 1
    /\ outcome.error.message =
         << "Function calling error: ", "Function ", "unknownTool", " not found" >>

FailedInvocations ==
    {i \in 1..Len(log) :
        /\ IsInvoke(log[i])
        /\ ~\E r \in (i + 1)..Len(log) : IsReturned(log[r]) /\ log[r].id = log[i].id
        /\ \E r \in (i + 1)..Len(log) : IsRaised(log[r])}

\* C5: a failing callback fails the whole run: it is not invoked again, no
\* later tool call of the round is executed, no tool message is appended for
\* the failed call and no further completion call is issued.
C5_CallbackFailureFailsRun ==
    \A i \in FailedInvocations :
        /\ pc = "failed"
        /\ outcome.kind = "throw"
        /\ \A j \in 1..Len(log) : (IsInvoke(log[j]) /\ j # i) => j < i
        /\ \A j \in 1..Len(log) : (IsInvoke(log[j]) /\ j # i) => log[j].id # log[i].id
        /\ \A m \in 1..Len(messages) :
              messages[m].role = "tool" => messages[m].tool_call_id # log[i].id
        /\ IsRaised(log[Len(log)])
        /\ \A j \in (i + 1)..Len(log) :
              IsAnyCompletion(log[j]) => /\ log[j].kind = "search"
                                         /\ j = i + 1
        /\ Count(log, IsRaised) = 1

C5_Witness ==
    /\ pc = "failed"
    /\ FailedInvocations # {}
    /\ Len(tools) = 2
    /\ toolIdx = 1
    /\ tools[1].function.name = "convertCurrencies"
    /\ tools[2].function.name = "searchProducts"
    /\ log[Len(log)].error.message = << "CurrencyService: Exchange rate data not found" >>

\* C9: a request whose run succeeds is answered 200 with {response: answer},
\* one whose run fails is answered 400 with an error message.
C9_SuccessIs200FailureIs400 ==
    entry = "http"
    => /\ pc = "done" => /\ httpResponse.status = 200
                         /\ httpResponse.body = [response |-> outcome.value]
       /\ pc = "failed" => /\ httpResponse.status = BadRequestStatus
                           /\ httpResponse.body.message =
                                << "Chatbot error: " >> \o outcome.error.message

\* The positions of the round being executed whose arguments are no JSON.
MalformedRequests ==
    {i \in 1..Len(tools) : ~JSONParse(tools[i].function.arguments).ok}

\* C12: a request whose arguments are not parseable JSON fails the run: its
\* callback is not invoked, no tool message is appended for it and no further
\* completion call is issued.
C12_MalformedArgumentsFailRun ==
    [](\A i \in MalformedRequests :
        /\ toolIdx <= i
        /\ \A e \in 1..Len(log) : IsInvoke(log[e]) => log[e].id # tools[i].id
        /\ \A m \in 1..Len(messages) :
              messages[m].role = "tool" => messages[m].tool_call_id # tools[i].id
        /\ Count(log, IsLoopCompletion) = Rounds(messages)
        /\ Count(log, IsFinalCompletion) = 0
        /\ pc \in Waiting \cup {"failed"}
        /\ toolIdx = i
           => /\ pc = "failed"
              /\ outcome.kind = "throw"
              /\ IsRaised(log[Len(log)])
              /\ tools[i].function.name \in ToolNames(callbacks)
                 => log[Len(log)].error.name = "SyntaxError")

C12_Witness ==
    /\ pc = "failed"
    /\ Len(tools) = 2
    /\ toolIdx = 2
    /\ MalformedRequests = {2}
    /\ tools[2].function.name = "searchProducts"
    /\ Count(log, IsInvoke) = 1
    /\ Count(log, IsReturned) = 1
    /\ log[Len(log)].error.name = "SyntaxError"

IsRunResponse(e) == e.ev = "response" /\ e.kind \in {"loop", "final"}
\* Completions of the run not answered yet, callbacks not returned yet.
OpenCompletions(lg) == Count(lg, IsRunCompletion) - Count(lg, IsRunResponse)
OpenCallbacks(lg) == Count(lg, IsInvoke) - Count(lg, IsReturned)

\* C13: at most one external call of a run is outstanding: a callback or a
\* completion is started only when every earlier completion of the run has
\* been answered and every earlier callback has returned.
C13_OneOutstandingCall ==
  [](
    /\ OpenCompletions(log) + OpenCallbacks(log) \in {0, 1}
    /\ \A p \in 1..Len(log) :
          (IsInvoke(log[p]) \/ IsRunCompletion(log[p]))
          => /\ OpenCompletions(Prefix(log, p - 1)) = 0
             /\ OpenCallbacks(Prefix(log, p - 1)) = 0
    /\ pc \in {"awaitModel", "awaitFinal"}
       => OpenCompletions(log) = 1 /\ OpenCallbacks(log) = 0
    /\ pc \in Waiting /\ entry # "search"
       => OpenCompletions(log) = 0 /\ OpenCallbacks(log) = 1 )

C13_Witness ==
    /\ pc = "awaitRates"
    /\ Len(tools) = 2
    /\ toolIdx = 2
    /\ Rounds(messages) = 2
    /\ Count(log, IsReturned) = 2
    /\ Count(log, IsInvoke) = 3
    /\ Count(log, IsLoopCompletion) = 2

\* The position of the only finalization completion in the history.
FinalAt == CHOOSE f \in 1..Len(log) : IsFinalCompletion(log[f])
\* The messages a run accumulates after the two initial ones.
Accumulated == {messages[k] : k \in 3..Len(messages)}

\* C14 (first part): a run that returned issued exactly one finalization
\* completion, after the answer to the last loop completion, with a fresh
\* two-message context (the input as user message, then a system message
\* made of the input and the last assistant text), without the tool schema
\* and without any of the accumulated assistant, tool or nudge messages.
C14_OneFreshFinalization ==
    pc = "done"
    => /\ Count(log, IsFinalCompletion) = 1
       /\ FinalAt > 1
       /\ IsLoopResponse(log[FinalAt - 1])
       /\ \A j \in FinalAt..Len(log) : ~IsLoopCompletion(log[j]) /\ ~IsLoopResponse(log[j])
       /\ log[FinalAt].messages =
            << UserMessage(input),
               SystemMessage(<< "A user asks: \"" >> \o input
                   \o << "\". The result was: " >>
                   \o Render(log[FinalAt - 1].llmResponse.choices[1].message.content)
                   \o << ". Formulate a final response." >>) >>
       /\ log[FinalAt].tools = <<>>
       /\ \A m \in 1..Len(log[FinalAt].messages) :
             /\ log[FinalAt].messages[m].role \in {"user", "system"}
             /\ log[FinalAt].messages[m] \notin Accumulated
       /\ log[Len(log)] = Response("final", log[Len(log)].llmResponse)
       /\ FinalAt = Len(log) - 1

\* C14: a run that returned issued one fresh finalization completion, and the
\* answer it returned is the trimmed text of that completion.
C14_AnswerIsTrimmedFinalization ==
    /\ C14_OneFreshFinalization
    /\ pc = "done"
       => /\ log[Len(log)].llmResponse.choices # <<>>
          /\ ~log[Len(log)].llmResponse.choices[1].message.content.null
          /\ outcome = Return(Text(Trim(
                 log[Len(log)].llmResponse.choices[1].message.content.text)))

\* The control state of the run. ToolsRequested is passed through within the
\* step that receives the tool calls; ExecutingTools lasts while a callback
\* is awaited.
ControlState(p) ==
    CASE p = "awaitModel" -> "AwaitingModel"
      [] p \in Waiting -> "ExecutingTools"
      [] p = "awaitFinal" -> "Finalizing"
      [] p = "done" -> "Done"
      [] p = "failed" -> "Failed"
      [] OTHER -> "NotRunning"

ControlTransitions ==
    { << "NotRunning", "AwaitingModel" >>,
      << "AwaitingModel", "ExecutingTools" >>,
      << "ExecutingTools", "ExecutingTools" >>,
      << "ExecutingTools", "AwaitingModel" >>,
      << "AwaitingModel", "AwaitingModel" >>,
      << "AwaitingModel", "Finalizing" >>,
      << "Finalizing", "Done" >>,
      << "AwaitingModel", "Failed" >>,
      << "ExecutingTools", "Failed" >>,
      << "Finalizing", "Failed" >> }

\* The answer to the latest loop completion before position p of the history.
LastLoopResponse(p) ==
    log[CHOOSE q \in 1..(p - 1) :
            /\ IsLoopResponse(log[q])
            /\ \A r \in (q + 1)..(p - 1) : ~IsLoopResponse(log[r])].llmResponse

\* C15: the control state of a run moves only along AwaitingModel ->
\* ExecutingTools -> AwaitingModel, AwaitingModel -> Finalizing -> Done and
\* any state -> Failed; a round that stays in AwaitingModel is one whose
\* completion requested tools; callbacks are invoked only after a completion
\* answered "tool_calls"; nothing happens after Done or Failed.
C15_ControlTransitions ==
    /\ [][ /\ ((pc' # pc \/ log' # log) /\ ControlState(pc') # "NotRunning")
              => << ControlState(pc), ControlState(pc') >> \in ControlTransitions
           /\ pc' = "done" => pc \in {"awaitFinal", "done"}
           /\ pc \in {"done", "failed"}
              => /\ pc' = pc /\ log' = log /\ outcome' = outcome
                 /\ messages' = messages
           /\ (pc = "awaitModel" /\ log' # log /\ pc' \in Waiting \cup {"awaitModel"})
              => /\ IsLoopResponse(log'[Len(log) + 1])
                 /\ log'[Len(log) + 1].llmResponse.choices[1].finish_reason = "tool_calls"
         ]_vars
    /\ [](\A p \in 1..Len(log) :
            IsInvoke(log[p])
            => /\ \E q \in 1..(p - 1) : IsLoopResponse(log[q])
               /\ LastLoopResponse(p).choices # <<>>
               /\ LastLoopResponse(p).choices[1].finish_reason = "tool_calls")

C15_Witness ==
    /\ pc = "done"
    /\ Rounds(messages) = 2
    /\ Count(log, IsInvoke) = 3
    /\ Count(log, IsLoopCompletion) = 3
    /\ Count(log, IsFinalCompletion) = 1

\* ms is a sequence of completed rounds: per round the assistant message with
\* its requests, one tool message per request in request order, one nudge.
RECURSIVE CompletedRounds(_, _)
CompletedRounds(ms, nudge) ==
    IF ms = <<>> THEN TRUE
    ELSE IF Head(ms).role # "assistant" THEN FALSE
    ELSE LET n == Len(Head(ms).tool_calls) IN
         /\ Head(ms).hasToolCalls
         /\ Len(ms) >= n + 2
         /\ \A k \in 1..n : /\ ms[1 + k].role = "tool"
                             /\ ms[1 + k].tool_call_id = Head(ms).tool_calls[k].id
         /\ ms[n + 2] = nudge
         /\ CompletedRounds(SubSeq(ms, n + 3, Len(ms)), nudge)

\* C16: the messages of every loop completion are one system message (role
\* framing and tool enumeration), one user message (the raw input), then per
\* completed round the assistant message, one tool message per request in
\* request order and one system nudge; the k-th loop completion carries k - 1
\* rounds, and the sequence of a run only grows.
C16_MessageSequenceShape ==
    /\ [](\A p \in 1..Len(log) :
            IsLoopCompletion(log[p])
            => LET ms == log[p].messages IN
               /\ Len(ms) >= 2
               /\ ms[1] = SystemMessage(
                     << "You are a helpful customer support assistant. Use the following functions: " >>
                     \o functionList(callbacks))
               /\ ms[2] = UserMessage(input)
               /\ CompletedRounds(SubSeq(ms, 3, Len(ms)),
                     SystemMessage(
                       << "Don't ask the user, always do if there is some function list " >>
                       \o functionList(callbacks)))
               /\ Rounds(ms) = Count(Prefix(log, p - 1), IsLoopCompletion)
               /\ IsPrefix(ms, messages))
    /\ [][IsPrefix(messages, messages')]_vars

C16_Witness ==
    /\ pc = "awaitModel"
    /\ Rounds(messages) = 2
    /\ Count(log, IsLoopCompletion) = 3
    /\ Len(messages) = 9
    /\ messages[4].role = "tool"
    /\ messages[5].role = "system"
    /\ messages[6].role = "assistant"
    /\ log[Len(log)].messages = messages

\* The tool-call requests of an assistant message.
Requests(m) == {m.tool_calls[k] : k \in 1..Len(m.tool_calls)}
\* The request with that id among the assistant messages of the run.
RequestOf(id) ==
    CHOOSE rq \in UNION {Requests(messages[m]) :
                            m \in {k \in 1..Len(messages) : IsAssistant(messages[k])}} :
        rq.id = id
\* The nearest assistant message before position m of the sequence.
PrecedingAssistant(m) ==
    messages[CHOOSE a \in 1..(m - 1) :
                 /\ IsAssistant(messages[a])
                 /\ \A b \in (a + 1)..(m - 1) : ~IsAssistant(messages[b])]
ToolMessagesFor(id) ==
    {m \in 1..Len(messages) :
        messages[m].role = "tool" /\ messages[m].tool_call_id = id}

\* C17: the callback invoked for a request is that of the registry entry
\* with exactly the request's tool name and of no entry with another name, it
\* receives the parsed JSON arguments of the request, and when it returns
\* exactly one tool message with its result and the request's tool_call_id is
\* appended; every tool message answers a request of the nearest preceding
\* assistant message.
C17_CallbackMatchesRequest ==
  [](
    /\ \A e \in 1..Len(log) :
          IsInvoke(log[e])
          => LET rq == RequestOf(log[e].id)
                 parsed == JSONParse(rq.function.arguments)
             IN /\ \E i \in 1..Len(callbacks) :
                      /\ callbacks[i].name = rq.function.name
                      /\ callbacks[i].callback = log[e].callback
                /\ \A j \in 1..Len(callbacks) :
                      callbacks[j].name # rq.function.name
                      => callbacks[j].callback # log[e].callback
                /\ parsed.ok
                /\ log[e].params = parsed.val
    /\ \A r \in 1..Len(log) :
          IsReturned(log[r])
          => LET answers == ToolMessagesFor(log[r].id) IN
             /\ Cardinality(answers) = 1
             /\ \A m \in answers : messages[m].content = Text(log[r].result)
             /\ \E e \in 1..(r - 1) : IsInvoke(log[e]) /\ log[e].id = log[r].id
    /\ \A m \in 1..Len(messages) :
          messages[m].role = "tool"
          => /\ \E a \in 1..(m - 1) : IsAssistant(messages[a])
             /\ \E rq \in Requests(PrecedingAssistant(m)) :
                   rq.id = messages[m].tool_call_id
             /\ \E r \in 1..Len(log) :
                   IsReturned(log[r]) /\ log[r].id = messages[m].tool_call_id )

C17_Witness ==
    /\ pc = "awaitFinal"
    /\ Rounds(messages) = 2
    /\ Count(log, IsReturned) = 3
    /\ Cardinality({m \in 1..Len(messages) : messages[m].role = "tool"}) = 3
    /\ Len(messages[3].tool_calls) = 1
    /\ messages[3].tool_calls[1].function.name = "searchProducts"
    /\ Cardinality({e \in 1..Len(log) : IsInvoke(log[e]) /\ log[e].callback = "cbConvert"}) = 2

\* So far the model answered every loop completion with "tool_calls" and
\* nothing failed.
OnlyToolCallsSoFar ==
    /\ pc \notin {"idle", "rejected"}
    /\ Count(log, IsRaised) = 0
    /\ \A p \in 1..Len(log) :
          IsLoopResponse(log[p])
          => /\ ~log[p].llmResponse.error
             /\ log[p].llmResponse.choices # <<>>
             /\ log[p].llmResponse.choices[1].finish_reason = "tool_calls"

\* C19: the orchestrator puts no limit on the rounds: while the model has
\* answered all k loop completions so far with "tool_calls" and every tool
\* call succeeded, the run has executed all k rounds, has issued the
\* (k+1)-th loop completion once the k-th round is through, and is neither
\* finalizing, done nor failed.
C19_NoRoundLimit ==
  [](
    OnlyToolCallsSoFar
    => LET k == Count(log, IsLoopResponse) IN
       /\ pc \in Waiting \cup {"awaitModel"}
       /\ Rounds(messages) = k
       /\ Count(log, IsFinalCompletion) = 0
       /\ pc = "awaitModel"
          => /\ Count(log, IsLoopCompletion) = k + 1
             /\ Count(log, IsInvoke) = CallsRequested(messages)
             /\ Count(log, IsReturned) = CallsRequested(messages)
       /\ pc \in Waiting
          => /\ Count(log, IsLoopCompletion) = k
             /\ Count(log, IsReturned) = toolIdx - 1 + CallsRequested(messages) - Len(tools) )

C19_Witness ==
    /\ OnlyToolCallsSoFar
    /\ pc = "awaitModel"
    /\ Rounds(messages) = MaxRounds
    /\ Count(log, IsLoopCompletion) = MaxRounds + 1
    /\ Count(log, IsReturned) >= 2

\* --------------------------------------------- runs with answered awaits
\* Answers to a loop completion that request at most one tool per round.
SingleCallResponses(ms) ==
    {ApiError, NoChoices}
    \cup { Choice("stop", AssistantMessage(c, <<>>, FALSE)) : c \in AssistantTexts }
    \cup (IF Rounds(ms) < MaxRounds /\ CallsRequested(ms) < MaxToolCalls
          THEN { Choice("tool_calls", AssistantMessage(NullContent, <<>>, TRUE)) }
               \cup { Choice("tool_calls", AssistantMessage(NullContent,
                          << ToolCall("call_" \o ToString(CallsRequested(ms) + 1),
                                      rq[1], rq[2]) >>, TRUE)) :
                        rq \in ToolRequests }
          ELSE {})

ModelRespondsSingleCall ==
    /\ pc = "awaitModel"
    /\ \E resp \in SingleCallResponses(messages) : Set(AfterLoopCompletion(Run, resp))

NextFair ==
    \/ LoadProducts
    \/ LoadProductsFails
    \/ PostChatbot
    \/ ModelRespondsSingleCall
    \/ CurrenciesRespond
    \/ RatesRespond
    \/ SearchResponds
    \/ FinalResponds

\* Every awaited call is answered: the provider answers each completion and
\* each fetch (with a result or an error), so every await of the run resumes.
SpecFair ==
    /\ Init
    /\ [][NextFair]_vars
    /\ WF_vars(ModelRespondsSingleCall)
    /\ WF_vars(CurrenciesRespond)
    /\ WF_vars(RatesRespond)
    /\ WF_vars(SearchResponds)
    /\ WF_vars(FinalResponds)

\* C18: when every awaited call is answered and the model stops requesting
\* tools after finitely many rounds (at most MaxRounds here), a run that
\* started ends: it returns an answer or raises an error.
C18_RunTerminates ==
    (pc \notin {"idle", "rejected"}) ~> (pc \in {"done", "failed"})

C18_Witness ==
    /\ pc = "done"
    /\ Rounds(messages) = 2
    /\ Count(log, IsReturned) = 2
    /\ outcome.kind = "return"

\* --------------------------------------- searchByName called on its own
\* Tokens a searchItems answer is made of, and every answer of at most
\* MaxRespLen of them.
SearchAlphabet == {"[", "]", ",", "1", "3", "1.5", "Items"}
TokenStrings(alphabet, n) == UNION { [1..k -> alphabet] : k \in 0..n }
\* Answers with tokens outside the alphabet.
OtherSearchTexts ==
    { << "[", "1.0", "]" >>, << "[", "0", "]" >>, << "[", "-1", "]" >>,
      << "[", "\"a\"", "]" >>, << "[", "null", "]" >>, << "[", "[", "1", "]", "]" >>,
      << "{", "}" >>, << "null" >>, << "[", "2", ",", "1", "]" >> }
AllSearchResponses ==
    {ApiError, NoChoices, Choice("stop", AssistantMessage(NullContent, <<>>, FALSE))}
    \cup { Choice("stop", AssistantMessage(Text(ts), <<>>, FALSE)) :
             ts \in TokenStrings(SearchAlphabet, MaxRespLen) \cup OtherSearchTexts }

\* ProductService.searchByName(name) up to the await of searchItems.
CallSearchByName ==
    /\ pc = "idle"
    /\ \E name \in { << "phone" >> } :
         /\ input' = name
         /\ frame' = [callback |-> "cbSearch", id |-> "direct", name |-> name]
         /\ log' = << Completion("search",
                         searchMessages(name,
                             [i \in 1..Len(products) |-> products[i].displayTitle],
                             << "Must select 2 items." >>),
                         <<>>) >>
    /\ entry' = "search"
    /\ pc' = "awaitSearch"
    /\ UNCHANGED << callbacks, messages, tools, toolIdx, outcome, httpResponse,
                    products, loadPc, suspended >>

\* The completion of searchItems answers; searchItems returns its indices and
\* searchByName returns or throws.
SearchByNameResponds ==
    /\ pc = "awaitSearch"
    /\ entry = "search"
    /\ \E resp \in AllSearchResponses :
         LET found == searchItems(resp)
             r == searchByName(frame.name, products, resp)
         IN /\ log' = log \o << Response("search", resp),
                               [ev |-> "searchItems", result |-> found] >>
            /\ outcome' = r
            /\ pc' = IF r.kind = "throw" THEN "failed" ELSE "done"
    /\ frame' = NoFrame
    /\ UNCHANGED << entry, input, callbacks, messages, tools, toolIdx, httpResponse,
                    products, loadPc, suspended >>

NextSearch ==
    \/ LoadProducts
    \/ LoadProductsFails
    \/ CallSearchByName
    \/ SearchByNameResponds

SpecSearch == Init /\ [][NextSearch]_vars

\* A text that is a flat JSON array of integer literals: "[" "]", or "[",
\* integers separated by ",", "]".
IntegerTokens == {"0", "1", "2", "3", "-1", "100", "1.0"}
FlatIntArray(ts) ==
    /\ Len(ts) >= 2
    /\ ts[1] = "["
    /\ ts[Len(ts)] = "]"
    /\ \/ Len(ts) = 2
       \/ /\ Len(ts) % 2 = 1
          /\ \A k \in 2..(Len(ts) - 1) :
                IF k % 2 = 0 THEN ts[k] \in IntegerTokens ELSE ts[k] = ","
ExpectedIndices(ts) == [k \in 1..((Len(ts) - 1) \div 2) |-> NumVal(ts[2 * k]) \div 10]

C10_NotFoundDistinctFromFailure ==
    ( /\ entry = "search"
      /\ pc = "failed"
      /\ ~log[2].llmResponse.error
      /\ log[2].llmResponse.choices # <<>>
      /\ log[2].llmResponse.choices[1].message.content = Text(<< "[", "]" >>) )
    => /\ outcome.error.name = "NotFoundException"
       /\ outcome # searchByName(input, products, ApiError)

\* searchByName was called with the catalog loaded: it enumerated its titles.
SearchedLoadedCatalog ==
    /\ entry = "search"
    /\ Len(log) >= 1
    /\ log[1] = Completion("search",
                    searchMessages(input,
                        [i \in 1..Len(Catalog) |-> Catalog[i].displayTitle],
                        << "Must select 2 items." >>),
                    <<>>)

\* C20: every index searchItems returned, and searchByName dereferenced, for
\* a successful search lies in 1..(number of catalog items), and the JSON
\* returned lists records of the catalog only, no null.
C20_IndicesWithinCatalog ==
    (SearchedLoadedCatalog /\ pc = "done")
    => LET found == log[Len(log)].result.value IN
       /\ \A i \in 1..Len(found) : found[i] \in 1..Len(Catalog)
       /\ outcome.value =
            << "[" >>
            \o Join([i \in 1..Len(found) |->
                        << "{\"displayTitle\":\"", Catalog[found[i]].displayTitle, "\"}" >>],
                    << "," >>)
            \o << "]" >>

\* The catalog is written by the load alone: it is empty until the load
\* resolved and the parsed catalog from then on.
CatalogAssignedByLoad ==
    /\ loadPc = "loaded" => products = Catalog
    /\ loadPc # "loaded" => products = <<>>

\* C21: the catalog is assigned once, by the load the constructor started,
\* and every searchByName call observes the loaded catalog: none runs while
\* the load is pending and enumerates an empty catalog.
C21_SearchObservesLoadedCatalog ==
    /\ CatalogAssignedByLoad
    /\ entry = "search" => SearchedLoadedCatalog

\* ------------------------------------------ the schema of any registry
\* Parameter declarations registries are made of: three names, declared with
\* different types, descriptions and required flags.
SchemaParams ==
    { Param("a", "d1", "string", TRUE), Param("a", "d2", "number", FALSE),
      Param("a", "d2", "string", TRUE), Param("b", "d1", "string", FALSE),
      Param("b", "d2", "number", TRUE), Param("c", "d1", "string", TRUE) }

\* The registry of k tools that own the declarations ps in order, tool
\* owner[i] owning ps[i] (owner does not decrease).
RegistryOf(ps, k, owner) ==
    [t \in 1..k |->
        Tool("tool" \o ToString(t), "description " \o ToString(t), "cb" \o ToString(t),
             SubSeq(ps, 1 + Cardinality({i \in 1..Len(ps) : owner[i] < t}),
                    Cardinality({i \in 1..Len(ps) : owner[i] <= t})))]
\* Tool owners that do not decrease: the declarations of a tool are adjacent.
Owners(n, k) ==
    { f \in [1..n -> 1..k] : \A i \in 1..(n - 1) : f[i] <= f[i + 1] }

InitSchema ==
    /\ pc = "idle"
    /\ entry = "none"
    /\ input = <<>>
    /\ \E k \in 0..MaxTools, n \in 0..MaxParams :
          \E ps \in [1..n -> SchemaParams], owner \in Owners(n, k) :
             callbacks = RegistryOf(ps, k, owner)
    /\ messages = <<>>
    /\ tools = <<>>
    /\ toolIdx = 0
    /\ frame = NoFrame
    /\ log = <<>>
    /\ outcome = NoOutcome
    /\ httpResponse = NoResponse
    /\ products = <<>>
    /\ loadPc = "pending"
    /\ suspended = IdleContext

\* functionCalling is called with the registry and builds its schema.
BuildSchema == StartFunctionCalling("direct", << "hello" >>, callbacks)

NextSchema == BuildSchema

SpecSchema == InitSchema /\ [][NextSchema]_vars

\* The parameters object sent for tool t with the first completion.
SentParameters(t) == log[1].tools[t].function.parameters
Elements(seq) == {seq[i] : i \in 1..Len(seq)}
Declaration(param) == [type |-> param.type, description |-> param.description]
DistinctParamNames(cbs) ==
    \A i, j \in 1..Len(AllParams(cbs)) :
        i # j => AllParams(cbs)[i].name # AllParams(cbs)[j].name

\* C7: when the parameter names of a registry are pairwise distinct, required
\* is the union of the required parameter names and properties holds exactly
\* every parameter with its own type and description; every tool carries this
\* same parameters object, with additionalProperties disallowed.
C7_SchemaIsUnionOfDistinctParams ==
    (log # <<>> /\ DistinctParamNames(callbacks))
    => /\ Len(log[1].tools) = Len(callbacks)
       /\ \A t \in 1..Len(callbacks) :
             LET all == Elements(AllParams(callbacks)) IN
             /\ log[1].tools[t].function.name = callbacks[t].name
             /\ log[1].tools[t].function.description = callbacks[t].description
             /\ Elements(SentParameters(t).required) = {p.name : p \in {q \in all : q.required}}
             /\ Len(SentParameters(t).required) = Cardinality({q \in all : q.required})
             /\ DOMAIN SentParameters(t).properties = {p.name : p \in all}
             /\ \A p \in all : SentParameters(t).properties[p.name] = Declaration(p)
             /\ SentParameters(t).additionalProperties = FALSE
             /\ SentParameters(t).type = "object"
             /\ SentParameters(t) = SentParameters(1)

C7_Witness ==
    /\ log # <<>>
    /\ DistinctParamNames(callbacks)
    /\ Len(callbacks) = 2
    /\ Len(callbacks[1].params) = 2
    /\ Len(callbacks[2].params) = 1
    /\ ~callbacks[1].params[2].required
    /\ callbacks[2].params[1].required
    /\ Len(SentParameters(2).required) = 2

\* C8: when two tools declare a parameter of the same name, properties holds
\* the type and description of the tool later in the registry, and required
\* is the union of the required parameter names of all tools.
C8_LaterToolWinsSharedName ==
    log # <<>>
    => \A t \in 1..Len(callbacks) :
          /\ Elements(SentParameters(t).required) =
                {p.name : p \in {q \in Elements(AllParams(callbacks)) : q.required}}
          /\ \A u \in 1..Len(callbacks) : \A i \in 1..Len(callbacks[u].params) :
                ( /\ \A v \in (u + 1)..Len(callbacks) : \A j \in 1..Len(callbacks[v].params) :
                        callbacks[v].params[j].name # callbacks[u].params[i].name
                  /\ \A j \in (i + 1)..Len(callbacks[u].params) :
                        callbacks[u].params[j].name # callbacks[u].params[i].name )
                => SentParameters(t).properties[callbacks[u].params[i].name]
                     = Declaration(callbacks[u].params[i])

C8_Witness ==
    /\ log # <<>>
    /\ Len(callbacks) = 2
    /\ Len(callbacks[1].params) = 1
    /\ Len(callbacks[2].params) = 1
    /\ callbacks[1].params[1] = Param("a", "d1", "string", TRUE)
    /\ callbacks[2].params[1] = Param("a", "d2", "number", FALSE)
    /\ SentParameters(1).properties["a"] = [type |-> "number", description |-> "d2"]
    /\ SentParameters(1).required = << "a" >>

\* ------------------------------------------------- two requests in flight
\* The model requests tools in the first round of a run only.
ModelRespondsOneRound ==
    /\ pc = "awaitModel"
    /\ \E resp \in SingleCallResponses(messages) :
         /\ (resp.choices # <<>> /\ IsToolCalls(resp.choices[1])) => Rounds(messages) = 0
         /\ Set(AfterLoopCompletion(Run, resp))

\* The event loop leaves the request it was running at its await and resumes
\* the other one: each request finds its own locals again, the services and
\* ProductService.products are the same for both.
SwitchSharingMessages ==
    /\ Context # suspended
    /\ suspended' = Context
    /\ pc' = suspended.pc
    /\ entry' = suspended.entry
    /\ input' = suspended.input
    /\ callbacks' = suspended.callbacks
    /\ messages' = messages
    /\ tools' = suspended.tools
    /\ toolIdx' = suspended.toolIdx
    /\ frame' = suspended.frame
    /\ log' = suspended.log
    /\ outcome' = suspended.outcome
    /\ httpResponse' = suspended.httpResponse
    /\ UNCHANGED << products, loadPc >>
Switch ==
    /\ Context # suspended
    /\ suspended' = Context
    /\ pc' = suspended.pc
    /\ entry' = suspended.entry
    /\ input' = suspended.input
    /\ callbacks' = suspended.callbacks
    /\ messages' = suspended.messages
    /\ tools' = suspended.tools
    /\ toolIdx' = suspended.toolIdx
    /\ frame' = suspended.frame
    /\ log' = suspended.log
    /\ outcome' = suspended.outcome
    /\ httpResponse' = suspended.httpResponse
    /\ UNCHANGED << products, loadPc >>

NextConcurrent ==
    \/ LoadProducts
    \/ LoadProductsFails
    \/ PostChatbot
    \/ ModelRespondsOneRound
    \/ CurrenciesRespond
    \/ RatesRespond
    \/ SearchResponds
    \/ FinalResponds
    \/ Switch

SpecConcurrent == Init /\ [][NextConcurrent]_vars

\* The messages a run pushes while the history lg of its own calls unfolds:
\* the assistant message of each "tool_calls" answer, the tool message of each
\* returned callback, the nudge before each further loop completion.
RECURSIVE Pushed(_, _)
Pushed(lg, nudge) ==
    IF lg = <<>> THEN <<>>
    ELSE LET e == Head(lg) IN
         (IF IsLoopResponse(e)
          THEN IF /\ ~e.llmResponse.error
                  /\ e.llmResponse.choices # <<>>
                  /\ e.llmResponse.choices[1].finish_reason = "tool_calls"
               THEN << e.llmResponse.choices[1].message >>
               ELSE <<>>
          ELSE IF IsReturned(e) THEN << [role |-> "tool", content |-> Text(e.result),
                                         tool_call_id |-> e.id] >>
          ELSE IF IsLoopCompletion(e) THEN << nudge >>
          ELSE <<>>)
         \o Pushed(Tail(lg), nudge)

\* The message sequence of the run after the first n entries of its history,
\* from its own input, its own registry and the answers to its own calls.
OwnMessages(n) ==
    << SystemMessage(<< "You are a helpful customer support assistant. Use the following functions: " >>
                     \o functionList(callbacks)),
       UserMessage(input) >>
    \o Pushed(SubSeq(log, 2, n),
              SystemMessage(<< "Don't ask the user, always do if there is some function list " >>
                            \o functionList(callbacks)))

\* The run of the request being served depends on nothing but its own input,
\* registry and answers.
RunAsIfAlone ==
    pc \notin {"idle", "rejected"}
    => /\ messages = OwnMessages(Len(log))
       /\ \A p \in 1..Len(log) :
             /\ IsLoopCompletion(log[p])
                => /\ log[p].messages = OwnMessages(p)
                   /\ log[p].tools = functions(callbacks)
             /\ IsFinalCompletion(log[p])
                => /\ log[p].messages[1] = UserMessage(input)
                   /\ log[p].messages[2] =
                        SystemMessage(<< "A user asks: \"" >> \o input
                            \o << "\". The result was: " >>
                            \o Render(log[p - 1].llmResponse.choices[1].message.content)
                            \o << ". Formulate a final response." >>)
             /\ IsInvoke(log[p])
                => \E i \in 1..Len(callbacks) : callbacks[i].callback = log[p].callback
       /\ IsPrefix(EventIds(log, IsInvoke), RequestedIds(messages))
       /\ pc = "failed"
          => /\ IsRaised(log[Len(log)])
             /\ outcome = Throw(BadRequestException(
                    << "Function calling error: " >> \o log[Len(log)].error.message))
       /\ pc = "done"
          => /\ log[Len(log)].ev = "response" /\ log[Len(log)].kind = "final"
             /\ outcome =
                  IF log[Len(log)].llmResponse.choices = <<>> THEN Return(Undefined)
                  ELSE Return(Text(Trim(
                         log[Len(log)].llmResponse.choices[1].message.content.text)))
       /\ httpResponse = IF pc \in {"done", "failed"}
                         THEN controller(chatbot(outcome))
                         ELSE NoResponse

\* C11: runs of different requests share no mutable state: a step of one
\* request leaves the locals of the suspended one as they are, and whatever
\* the interleaving, the messages a run sends, the callbacks it invokes and
\* its outcome follow from its own input, registry and answers alone.
C11_RunsDoNotInterfere ==
    /\ [][suspended' = suspended \/ (suspended' = Context /\ Context' = suspended)]_vars
    /\ []RunAsIfAlone

C11_Witness ==
    /\ pc = "done"
    /\ Rounds(messages) = 1
    /\ Count(log, IsReturned) = 1
    /\ suspended.pc = "awaitRates"
    /\ suspended.input # input
    /\ log[1].messages[2] # suspended.log[1].messages[2]

====
